---- MODULE Spec2Model ----
(***************************************************************************)
(* Event management backend: events with version snapshots, rollback,     *)
(* and graded sharing permissions.  The state is the content of the three *)
(* tables events, event_versions and event_permissions, plus the outcome   *)
(* of the last request.  Each request handler is one action; where         *)
(* requests overlap, a handler is the sequence of its database             *)
(* transactions and requests holds each session's position.  For the diff  *)
(* utility, a pure function, requests holds the two field maps compared.   *)
(***************************************************************************)
EXTENDS Integers, Sequences, FiniteSets, Bags, TLC

VARIABLES events, event_versions, event_permissions, response, requests

vars == <<events, event_versions, event_permissions, response, requests>>

\* ------------------------------------------------------------------ bounds
NumUsers == 3
MaxEvents == 2
MaxSnapshots == 3
MaxPermissions == 2
MaxTime == 1
MaxRequests == 2
MaxHour == 2
MaxEntries == 2
MaxKeys == 2
MaxValues == 2

Users == 1..NumUsers
EventIds == 1..MaxEvents
VersionNumbers == 1..MaxSnapshots
Times == 0..MaxTime
Hours == 0..MaxHour
Titles == {"Standup", "Standup v2"}

\* ------------------------------------------------- models/permission.py
VIEWER == "viewer"
EDITOR == "editor"
OWNER == "owner"
PermissionLevel == {VIEWER, EDITOR, OWNER}

order(level) == CASE level = VIEWER -> 1 [] level = EDITOR -> 2 [] level = OWNER -> 3

level_lt(self, other) == order(self) < order(other)

level_le(self, other) == level_lt(self, other) \/ self = other

level_gt(self, other) == ~ level_le(self, other)

\* (mutant) equal levels do not satisfy the comparison
level_ge_strict(self, other) == level_gt(self, other)

level_ge(self, other) == level_gt(self, other) \/ self = other

\* ------------------------------------------------------ models/event.py
RecurrenceType == {"none", "daily"}

\* The versioned columns of Event that the model keeps (description and
\* location are handled by the code exactly as title is, is_recurring and
\* recurrence_pattern exactly as recurrence_type is).
FieldOrder == <<"title", "start_time", "end_time", "recurrence_type">>

EventFields == {FieldOrder[i] : i \in 1..Len(FieldOrder)}

\* The outcome of the last request: operation, HTTP status and, for a share
\* request, the per-target status list.
Respond(op, status, result) == [op |-> op, status |-> status, result |-> result]

NoResponse == Respond("none", 0, <<>>)

\* ----------------------------------------------------- table look-ups
\* db.query(EventPermission).filter(event_id, user_id) on a table content:
\* the matching rows.  The table is a bag of rows.
PermissionRowsIn(permissions, event_id, user_id) ==
    {row \in BagToSet(permissions) :
        row.event_id = event_id /\ row.user_id = user_id}

PermissionRows(event_id, user_id) ==
    PermissionRowsIn(event_permissions, event_id, user_id)

\* .first(): one of the matching rows
First(rows) == CHOOSE row \in rows : TRUE

\* db.query(EventVersion).filter(event_id, version_number): the matching rows
VersionRows(event_id, version_number) ==
    {i \in 1..Len(event_versions) :
        /\ event_versions[i].event_id = event_id
        /\ event_versions[i].version_number = version_number}

SnapshotsOf(event_id) ==
    {i \in 1..Len(event_versions) : event_versions[i].event_id = event_id}

\* EventService.get_event_by_id: the live event with this id, if any
\* (mutant) the is_deleted filter is dropped
EventExists_ignores_deleted(event_id) == event_id \in 1..Len(events)

EventExists(event_id) ==
    /\ event_id \in 1..Len(events)
    /\ ~ events[event_id].is_deleted

\* ------------------------------------------------- utils/permissions.py
\* (mutant) any permission row authorises, whatever its level
has_permission_any_row(user, event, required_level) ==
    \/ event.owner_id = user
    \/ PermissionRows(event.id, user) # {}

has_permission(user, event, required_level) ==
    \/ event.owner_id = user
    \/ \E rows \in {PermissionRows(event.id, user)} :
          /\ rows # {}
          /\ level_ge(First(rows).permission_level, required_level)

\* (mutant) the check on the OWNER level is dropped
GrantForbidden_owner_level_open(permissions, event, permission_level, granted_by) ==
    LET rows == PermissionRowsIn(permissions, event.id, granted_by)
    IN  /\ event.owner_id # granted_by
        /\ (rows = {} \/ First(rows).permission_level # OWNER)
        /\ rows # {}
        /\ First(rows).permission_level = EDITOR
        /\ permission_level # VIEWER

\* (mutant) the check on what an editor grants is dropped
GrantForbidden_editor_unrestricted(permissions, event, permission_level, granted_by) ==
    LET rows == PermissionRowsIn(permissions, event.id, granted_by)
    IN  /\ event.owner_id # granted_by
        /\ (rows = {} \/ First(rows).permission_level # OWNER)
        /\ permission_level = OWNER

\* grant_permission raises 403: the granter may not grant this level
GrantForbidden(permissions, event, permission_level, granted_by) ==
    /\ event.owner_id # granted_by
    /\ \E rows \in {PermissionRowsIn(permissions, event.id, granted_by)} :
          /\ rows = {} \/ First(rows).permission_level # OWNER
          /\ \/ permission_level = OWNER
             \/ /\ rows # {}
                /\ First(rows).permission_level = EDITOR
                /\ permission_level # VIEWER

\* (mutant) a row is inserted whether or not the grantee has one
Upsert_always_inserts(permissions, event, user_id, permission_level, granted_by) ==
    permissions (+) SetToBag({[event_id |-> event.id, user_id |-> user_id,
                               permission_level |-> permission_level,
                               granted_by |-> granted_by]})

\* grant_permission past the authority check: overwrite the row or insert one
Upsert(permissions, event, user_id, permission_level, granted_by) ==
    LET rows == PermissionRowsIn(permissions, event.id, user_id)
        permission == [event_id |-> event.id, user_id |-> user_id,
                       permission_level |-> permission_level,
                       granted_by |-> granted_by]
    IN  IF rows # {}
        THEN (permissions (-) SetToBag({First(rows)})) (+) SetToBag({permission})
        ELSE permissions (+) SetToBag({permission})

\* The table after grant_permission (unchanged when it raises)
grant_permission(permissions, event, user_id, permission_level, granted_by) ==
    IF GrantForbidden(permissions, event, permission_level, granted_by)
    THEN permissions
    ELSE Upsert(permissions, event, user_id, permission_level, granted_by)

\* The table after revoke_permission by the owner
\* (mutant) the row found is not deleted
revoke_permission_keeps_row(permissions, event, user_id) == permissions

\* (mutant) every permission row of the event is deleted
revoke_permission_clears_event(permissions, event, user_id) ==
    IF PermissionRowsIn(permissions, event.id, user_id) # {}
    THEN SetToBag({row \in BagToSet(permissions) : row.event_id # event.id})
    ELSE permissions

revoke_permission(permissions, event, user_id) ==
    LET rows == PermissionRowsIn(permissions, event.id, user_id)
    IN  IF rows # {} THEN permissions (-) SetToBag({First(rows)})
        ELSE permissions

\* ---------------------------------------------- services/event_service.py
\* (mutant) closed comparisons: ranges that touch at an endpoint count
_check_event_conflicts_touching(user_id, start_time, end_time, exclude_event_id) ==
    {i \in 1..Len(events) :
        /\ events[i].owner_id = user_id
        /\ events[i].is_deleted = FALSE
        /\ events[i].start_time <= end_time
        /\ events[i].end_time >= start_time
        /\ (exclude_event_id # 0 => i # exclude_event_id)}

\* The events of user_id that overlap [start_time, end_time)
_check_event_conflicts(user_id, start_time, end_time, exclude_event_id) ==
    {i \in 1..Len(events) :
        /\ events[i].owner_id = user_id
        /\ events[i].is_deleted = FALSE
        /\ events[i].start_time < end_time
        /\ events[i].end_time > start_time
        /\ (exclude_event_id # 0 => i # exclude_event_id)}

Summary(kind, version, changes) ==
    [kind |-> kind, version |-> version, changes |-> changes]

\* (mutant) the snapshot is numbered with the version the update leads to
_create_version_numbered_next(event, user, change_summary) ==
    [event_id |-> event.id,
     version_number |-> event.version + 1,
     title |-> event.title,
     start_time |-> event.start_time,
     end_time |-> event.end_time,
     recurrence_type |-> event.recurrence_type,
     changed_by |-> user,
     change_summary |-> change_summary]

\* The row _create_version inserts for the current state of event
_create_version(event, user, change_summary) ==
    [event_id |-> event.id,
     version_number |-> event.version,
     title |-> event.title,
     start_time |-> event.start_time,
     end_time |-> event.end_time,
     recurrence_type |-> event.recurrence_type,
     changed_by |-> user,
     change_summary |-> change_summary]

_generate_change_summary(event, update_data) ==
    LET changed == SelectSeq(FieldOrder,
                       LAMBDA f : f \in DOMAIN update_data /\ event[f] # update_data[f])
        changes == [i \in 1..Len(changed) |->
                       <<changed[i], event[changed[i]], update_data[changed[i]]>>]
    IN  IF Len(changed) > 0 THEN Summary("Updated", 0, changes)
        ELSE Summary("No changes", 0, <<>>)

\* setattr(event, field, value) for every item of update_data
ApplyUpdate(event, update_data) ==
    [k \in DOMAIN event |->
        IF k \in DOMAIN update_data THEN update_data[k] ELSE event[k]]

\* (mutant) the event and its snapshot are stored before the conflict check
create_event_stores_first(owner, event_data) ==
    LET db_event == [id |-> Len(events) + 1,
                     title |-> event_data.title,
                     start_time |-> event_data.start_time,
                     end_time |-> event_data.end_time,
                     recurrence_type |-> event_data.recurrence_type,
                     owner_id |-> owner,
                     version |-> 1,
                     is_deleted |-> FALSE]
    IN  /\ Len(events) < MaxEvents
        /\ Len(event_versions) < MaxSnapshots
        /\ events' = Append(events, db_event)
        /\ event_versions' = Append(event_versions,
                _create_version(db_event, owner,
                                Summary("Initial creation", 0, <<>>)))
        /\ response' = Respond("create",
                IF _check_event_conflicts(owner, event_data.start_time,
                                          event_data.end_time, 0) # {}
                THEN 409 ELSE 201, <<>>)
        /\ UNCHANGED <<event_permissions, requests>>

create_event(owner, event_data) ==
    LET db_event == [id |-> Len(events) + 1,
                     title |-> event_data.title,
                     start_time |-> event_data.start_time,
                     end_time |-> event_data.end_time,
                     recurrence_type |-> event_data.recurrence_type,
                     owner_id |-> owner,
                     version |-> 1,
                     is_deleted |-> FALSE]
    IN  /\ Len(events) < MaxEvents
        /\ Len(event_versions) < MaxSnapshots
        /\ IF _check_event_conflicts(owner, event_data.start_time,
                                    event_data.end_time, 0) # {}
           THEN /\ response' = Respond("create", 409, <<>>)
                /\ UNCHANGED <<events, event_versions>>
           ELSE /\ events' = Append(events, db_event)
                /\ event_versions' = Append(event_versions,
                        _create_version(db_event, owner,
                                        Summary("Initial creation", 0, <<>>)))
                /\ response' = Respond("create", 201, <<>>)
        /\ UNCHANGED <<event_permissions, requests>>

\* (mutant) only the first item of the batch is checked
BatchConflicts_first_item(owner, events_data) ==
    _check_event_conflicts(owner, events_data[1].start_time,
                           events_data[1].end_time, 0) # {}

\* Some item's conflict check raises; items added earlier in the loop are
\* pending and not flushed, so each item is checked against stored events
BatchConflicts(owner, events_data) ==
    \E i \in 1..Len(events_data) :
        _check_event_conflicts(owner, events_data[i].start_time,
                               events_data[i].end_time, 0) # {}

\* create_batch_events: every item is checked against the stored events
\* (the session does not autoflush, so not against the items before it);
\* one conflict rolls the whole batch back
create_batch_events(owner, events_data) ==
    LET n == Len(events_data)
        db_events == [i \in 1..n |->
                        [id |-> Len(events) + i,
                         title |-> events_data[i].title,
                         start_time |-> events_data[i].start_time,
                         end_time |-> events_data[i].end_time,
                         recurrence_type |-> events_data[i].recurrence_type,
                         owner_id |-> owner,
                         version |-> 1,
                         is_deleted |-> FALSE]]
        versions == [i \in 1..n |->
                        _create_version(db_events[i], owner,
                                        Summary("Initial creation", 0, <<>>))]
    IN  /\ UNCHANGED <<event_permissions, requests>>
        /\ IF BatchConflicts(owner, events_data)
           THEN /\ response' = Respond("batch", 400, <<>>)
                /\ UNCHANGED <<events, event_versions>>
           ELSE /\ Len(events) + n <= MaxEvents
                /\ Len(event_versions) + n <= MaxSnapshots
                /\ events' = events \o db_events
                /\ event_versions' = event_versions \o versions
                /\ response' = Respond("batch", 201, <<>>)

\* (mutant) no early return on an empty change set
update_event_snapshots_empty(user, event_id, update_data) ==
    LET event == events[event_id]
        new_start == IF "start_time" \in DOMAIN update_data
                     THEN update_data["start_time"] ELSE event.start_time
        new_end == IF "end_time" \in DOMAIN update_data
                   THEN update_data["end_time"] ELSE event.end_time
        Reply(status) == Respond("update", status, <<>>)
    IN  /\ UNCHANGED <<event_permissions, requests>>
        /\ IF ~ EventExists(event_id)
           THEN /\ response' = Reply(404)
                /\ UNCHANGED <<events, event_versions>>
           ELSE IF ~ has_permission(user, event, EDITOR)
           THEN /\ response' = Reply(403)
                /\ UNCHANGED <<events, event_versions>>
           ELSE IF /\ DOMAIN update_data \cap {"start_time", "end_time"} # {}
                   /\ _check_event_conflicts(event.owner_id, new_start, new_end,
                                             event_id) # {}
           THEN /\ response' = Reply(409)
                /\ UNCHANGED <<events, event_versions>>
           ELSE /\ Len(event_versions) < MaxSnapshots
                /\ event_versions' = Append(event_versions,
                        _create_version(event, user,
                                        _generate_change_summary(event, update_data)))
                /\ events' = [events EXCEPT ![event_id] =
                        [ApplyUpdate(event, update_data)
                            EXCEPT !.version = event.version + 1]]
                /\ response' = Reply(200)

update_event(user, event_id, update_data) ==
    LET event == events[event_id]
        new_start == IF "start_time" \in DOMAIN update_data
                     THEN update_data["start_time"] ELSE event.start_time
        new_end == IF "end_time" \in DOMAIN update_data
                   THEN update_data["end_time"] ELSE event.end_time
        Reply(status) == Respond("update", status, <<>>)
    IN  /\ UNCHANGED <<event_permissions, requests>>
        /\ IF ~ EventExists(event_id)
           THEN /\ response' = Reply(404)
                /\ UNCHANGED <<events, event_versions>>
           ELSE IF ~ has_permission(user, event, EDITOR)
           THEN /\ response' = Reply(403)
                /\ UNCHANGED <<events, event_versions>>
           ELSE IF DOMAIN update_data = {}
           THEN /\ response' = Reply(200)
                /\ UNCHANGED <<events, event_versions>>
           ELSE IF /\ DOMAIN update_data \cap {"start_time", "end_time"} # {}
                   /\ _check_event_conflicts(event.owner_id, new_start, new_end,
                                             event_id) # {}
           THEN /\ response' = Reply(409)
                /\ UNCHANGED <<events, event_versions>>
           ELSE /\ Len(event_versions) < MaxSnapshots
                /\ event_versions' = Append(event_versions,
                        _create_version(event, user,
                                        _generate_change_summary(event, update_data)))
                /\ events' = [events EXCEPT ![event_id] =
                        [ApplyUpdate(event, update_data)
                            EXCEPT !.version = event.version + 1]]
                /\ response' = Reply(200)

\* (mutant) an OWNER-level permission row is enough to delete
delete_event_by_owner_level(user, event_id) ==
    LET event == events[event_id]
        Reply(status) == Respond("delete", status, <<>>)
    IN  /\ UNCHANGED <<event_permissions, requests>>
        /\ IF ~ EventExists(event_id)
           THEN /\ response' = Reply(404)
                /\ UNCHANGED <<events, event_versions>>
           ELSE IF ~ has_permission(user, event, OWNER)
           THEN /\ response' = Reply(403)
                /\ UNCHANGED <<events, event_versions>>
           ELSE /\ Len(event_versions) < MaxSnapshots
                /\ event_versions' = Append(event_versions,
                        _create_version(event, user, Summary("Event deleted", 0, <<>>)))
                /\ events' = [events EXCEPT ![event_id].is_deleted = TRUE]
                /\ response' = Reply(204)

\* (mutant) the delete removes the snapshots of the event
delete_event_purges_snapshots(user, event_id) ==
    LET event == events[event_id]
        Reply(status) == Respond("delete", status, <<>>)
    IN  /\ UNCHANGED <<event_permissions, requests>>
        /\ IF ~ EventExists(event_id)
           THEN /\ response' = Reply(404)
                /\ UNCHANGED <<events, event_versions>>
           ELSE IF event.owner_id # user
           THEN /\ response' = Reply(403)
                /\ UNCHANGED <<events, event_versions>>
           ELSE /\ Len(event_versions) < MaxSnapshots
                /\ event_versions' = SelectSeq(event_versions,
                        LAMBDA version : version.event_id # event_id)
                /\ events' = [events EXCEPT ![event_id].is_deleted = TRUE]
                /\ response' = Reply(204)

delete_event(user, event_id) ==
    LET event == events[event_id]
        Reply(status) == Respond("delete", status, <<>>)
    IN  /\ UNCHANGED <<event_permissions, requests>>
        /\ IF ~ EventExists(event_id)
           THEN /\ response' = Reply(404)
                /\ UNCHANGED <<events, event_versions>>
           ELSE IF event.owner_id # user
           THEN /\ response' = Reply(403)
                /\ UNCHANGED <<events, event_versions>>
           ELSE /\ Len(event_versions) < MaxSnapshots
                /\ event_versions' = Append(event_versions,
                        _create_version(event, user, Summary("Event deleted", 0, <<>>)))
                /\ events' = [events EXCEPT ![event_id].is_deleted = TRUE]
                /\ response' = Reply(204)

\* -------------------------------------------- services/version_service.py
\* datetime.isoformat: the text of a time; never the empty text
isoformat(t) == <<"T", t>>

\* datetime.fromisoformat: the time a text denotes
fromisoformat(text) == text[2]

None == "None"

\* Python truth value of a text
Truthy(text) == Len(text) > 0

\* EventVersion.event_data: the JSON representation of the snapshot's fields
event_data_of(version) ==
    [title |-> version.title,
     start_time |-> isoformat(version.start_time),
     end_time |-> isoformat(version.end_time),
     recurrence_type |-> version.recurrence_type]

\* (mutant) the rollback restores the text fields but not the times
RolledBack_keeps_times(event, target_version) ==
    [event EXCEPT
        !.title = event_data_of(target_version).title,
        !.recurrence_type = event_data_of(target_version).recurrence_type,
        !.version = event.version + 1]

\* The event after the assignments of rollback_event from a target snapshot
RolledBack(event, target_version) ==
    LET event_data == event_data_of(target_version)
    IN  [event EXCEPT
            !.title = event_data.title,
            !.start_time = IF Truthy(event_data.start_time)
                           THEN fromisoformat(event_data.start_time) ELSE None,
            !.end_time = IF Truthy(event_data.end_time)
                         THEN fromisoformat(event_data.end_time) ELSE None,
            !.recurrence_type = event_data.recurrence_type,
            !.version = event.version + 1]

rollback_event(user, event_id, version_number) ==
    LET event == events[event_id]
        Reply(status) == Respond("rollback", status, <<>>)
    IN  /\ UNCHANGED <<event_permissions, requests>>
        /\ IF ~ EventExists(event_id)
           THEN /\ response' = Reply(404)
                /\ UNCHANGED <<events, event_versions>>
           ELSE IF ~ has_permission(user, event, EDITOR)
           THEN /\ response' = Reply(403)
                /\ UNCHANGED <<events, event_versions>>
           ELSE IF VersionRows(event_id, version_number) = {}
           THEN /\ response' = Reply(404)
                /\ UNCHANGED <<events, event_versions>>
           ELSE /\ Len(event_versions) < MaxSnapshots
                \* .first() without ORDER BY: any of the matching rows
                /\ \E target \in VersionRows(event_id, version_number) :
                      events' = [events EXCEPT ![event_id] =
                                    RolledBack(event, event_versions[target])]
                /\ event_versions' = Append(event_versions,
                        _create_version(event, user,
                            Summary("Rollback to version", version_number, <<>>)))
                /\ response' = Reply(200)

\* order_by(version_number.desc()): the orders the query can return the
\* rows in; rows with equal version_number come in any order
SortDesc(rows) ==
    {s \in [1..Cardinality(rows) -> rows] :
        /\ \A i, j \in DOMAIN s : i # j => s[i] # s[j]
        /\ \A i, j \in DOMAIN s :
              i < j => event_versions[s[i]].version_number
                          >= event_versions[s[j]].version_number}

\* VersionService.get_event_history: the results the query can give
get_event_history(event_id) == SortDesc(SnapshotsOf(event_id))

\* GET /events/{event_id}/history: the snapshot rows, newest first, for a
\* user with VIEWER access
get_event_history_request(user, event_id) ==
    LET event == events[event_id]
        Reply(status, result) == Respond("history", status, result)
    IN  /\ UNCHANGED <<events, event_versions, event_permissions, requests>>
        /\ IF ~ EventExists(event_id)
           THEN response' = Reply(404, <<>>)
           ELSE IF ~ has_permission(user, event, VIEWER)
           THEN response' = Reply(403, <<>>)
           ELSE \E history \in get_event_history(event_id) :
                   response' = Reply(200, history)

\* GET /events/{event_id}/diff/{version1}/{version2}: the compared fields
\* whose values differ between the two snapshots, for a user with VIEWER
\* access; .first() takes any of the rows with the version number asked for
compare_versions(user, event_id, version1, version2) ==
    LET event == events[event_id]
        Reply(status, result) == Respond("compare", status, result)
        changes(v1, v2) ==
            SelectSeq(FieldOrder,
                      LAMBDA field : event_data_of(v1)[field] # event_data_of(v2)[field])
    IN  /\ UNCHANGED <<events, event_versions, event_permissions, requests>>
        /\ IF ~ EventExists(event_id)
           THEN response' = Reply(404, <<>>)
           ELSE IF ~ has_permission(user, event, VIEWER)
           THEN response' = Reply(403, <<>>)
           ELSE IF VersionRows(event_id, version1) = {}
                   \/ VersionRows(event_id, version2) = {}
           THEN response' = Reply(404, <<>>)
           ELSE \E i \in VersionRows(event_id, version1),
                   j \in VersionRows(event_id, version2) :
                   response' = Reply(200, changes(event_versions[i],
                                                 event_versions[j]))

\* ------------------------------------------------ api/v1/collaboration.py
\* The grant loop of share_event from target i on: table and result list
RECURSIVE ShareLoop(_, _, _, _, _, _)
ShareLoop(permissions, results, event, users, current_user, i) ==
    IF i > Len(users) THEN [permissions |-> permissions, results |-> results]
    ELSE IF GrantForbidden(permissions, event, users[i].permission_level, current_user)
    THEN ShareLoop(permissions, Append(results, "failed"),
                   event, users, current_user, i + 1)
    ELSE ShareLoop(Upsert(permissions, event, users[i].user_id,
                          users[i].permission_level, current_user),
                   Append(results, "granted"),
                   event, users, current_user, i + 1)

\* What a handler answers and the table it leaves
Outcome(status, result, permissions) ==
    [status |-> status, result |-> result, permissions |-> permissions]

\* (mutant) no check that the target users exist: every target goes
\* through the grant loop
share_event_outcome_unvalidated(current_user, event_id, users) ==
    LET event == events[event_id]
        done == ShareLoop(event_permissions, <<>>, event, users, current_user, 1)
    IN  IF ~ EventExists(event_id)
        THEN Outcome(404, <<>>, event_permissions)
        ELSE IF ~ has_permission(current_user, event, OWNER)
        THEN Outcome(403, <<>>, event_permissions)
        ELSE Outcome(201, done.results, done.permissions)

\* share_event from the current state: status, result list, table
share_event_outcome(current_user, event_id, users) ==
    LET event == events[event_id]
        user_ids == {users[i].user_id : i \in 1..Len(users)}
        done == ShareLoop(event_permissions, <<>>, event, users, current_user, 1)
    IN  IF ~ EventExists(event_id)
        THEN Outcome(404, <<>>, event_permissions)
        ELSE IF ~ has_permission(current_user, event, OWNER)
        THEN Outcome(403, <<>>, event_permissions)
        ELSE IF user_ids \ Users # {}
        THEN Outcome(400, <<>>, event_permissions)
        ELSE Outcome(201, done.results, done.permissions)

share_event(current_user, event_id, users) ==
    \E outcome \in {share_event_outcome(current_user, event_id, users)} :
        /\ BagCardinality(outcome.permissions) <= MaxPermissions
        /\ event_permissions' = outcome.permissions
        /\ response' = Respond("share", outcome.status, outcome.result)
        /\ UNCHANGED <<events, event_versions, requests>>

\* update_user_permission from the current state: status and table
update_user_permission_outcome(current_user, event_id, user_id, permission_level) ==
    LET event == events[event_id]
    IN  IF ~ EventExists(event_id)
        THEN Outcome(404, <<>>, event_permissions)
        ELSE IF user_id \notin Users
        THEN Outcome(404, <<>>, event_permissions)
        ELSE IF user_id = event.owner_id
        THEN Outcome(400, <<>>, event_permissions)
        ELSE IF GrantForbidden(event_permissions, event, permission_level, current_user)
        THEN Outcome(403, <<>>, event_permissions)
        ELSE Outcome(200, <<>>,
                     grant_permission(event_permissions, event, user_id,
                                      permission_level, current_user))

update_user_permission(current_user, event_id, user_id, permission_level) ==
    \E outcome \in {update_user_permission_outcome(current_user, event_id,
                                                    user_id, permission_level)} :
        /\ BagCardinality(outcome.permissions) <= MaxPermissions
        /\ event_permissions' = outcome.permissions
        /\ response' = Respond("permission_update", outcome.status, outcome.result)
        /\ UNCHANGED <<events, event_versions, requests>>

revoke_user_permission(current_user, event_id, user_id) ==
    LET event == events[event_id]
    IN  /\ UNCHANGED <<events, event_versions, requests>>
        /\ IF ~ EventExists(event_id)
           THEN /\ response' = Respond("revoke", 404, <<>>)
                /\ UNCHANGED event_permissions
           ELSE IF user_id = event.owner_id
           THEN /\ response' = Respond("revoke", 400, <<>>)
                /\ UNCHANGED event_permissions
           ELSE IF event.owner_id # current_user
           THEN /\ response' = Respond("revoke", 403, <<>>)
                /\ UNCHANGED event_permissions
           ELSE IF PermissionRows(event_id, user_id) = {}
           THEN /\ response' = Respond("revoke", 404, <<>>)
                /\ UNCHANGED event_permissions
           ELSE /\ event_permissions' = revoke_permission(event_permissions, event, user_id)
                /\ response' = Respond("revoke", 200, <<>>)

\* ------------------------------------------------------------ requests
\* Valid EventCreate bodies: end_time after start_time, recurrence_type
\* left at its default
CreateInputs ==
    {d \in [title : {"Standup"}, start_time : Times, end_time : Times,
            recurrence_type : {"none"}] : d.end_time > d.start_time}

\* EventUpdate bodies (exclude_unset): no field or one field set, no
\* relation between start_time and end_time being required
UpdateInputs ==
    {<<>>}
    \cup {"title" :> t : t \in Titles}
    \cup {"start_time" :> t : t \in Times}
    \cup {"end_time" :> t : t \in Times}
    \cup {"recurrence_type" :> r : r \in RecurrenceType}

\* User ids a request can name: the registered users and one unknown id
UserIds == 1..(NumUsers + 1)

PermissionShare == [user_id : UserIds, permission_level : PermissionLevel]

\* EventShareRequest bodies: one or two targets, no user named twice
ShareInputs ==
    {<<p>> : p \in PermissionShare}
    \cup {s \in {<<p, q>> : p \in PermissionShare, q \in PermissionShare} :
             s[1].user_id # s[2].user_id}

\* Share bodies with one target
SingleShareInputs == {s \in ShareInputs : Len(s) = 1}

\* Share bodies with one target, a registered user
KnownShareInputs == {s \in SingleShareInputs : s[1].user_id \in Users}

\* Share bodies with one target, a registered user other than the creator
\* of the first event
GranteeShareInputs == {s \in KnownShareInputs : s[1].user_id # 1}

\* Share bodies that name the second user only
CollaboratorShareInputs == {s \in SingleShareInputs : s[1].user_id = 2}

\* One change of each kind of field, and the empty change
CollabUpdateInputs ==
    {<<>>, "title" :> "Standup v2", "start_time" :> 1, "recurrence_type" :> "daily"}

\* EventCreate bodies over the hours of a calendar day
CalendarInputs ==
    {d \in [title : {"Standup"}, start_time : Hours, end_time : Hours,
            recurrence_type : {"none"}] : d.end_time > d.start_time}

\* EventBatchCreate bodies: one or two items
BatchInputs ==
    {<<d>> : d \in CalendarInputs}
    \cup {<<d, e>> : d \in CalendarInputs, e \in CalendarInputs}

\* EventUpdate bodies that move one end of the range
CalendarUpdateInputs ==
    {"start_time" :> t : t \in Hours} \cup {"end_time" :> t : t \in Hours}

\* Share bodies with two targets among the second and third user and the
\* unknown id
SeveralShareInputs ==
    {s \in ShareInputs :
        Len(s) = 2 /\ \A i \in 1..2 : s[i].user_id \in {2, 3, NumUsers + 1}}

FirstEventInput ==
    [title |-> "Standup", start_time |-> 0, end_time |-> 1, recurrence_type |-> "none"]

Init ==
    /\ events = <<>>
    /\ event_versions = <<>>
    /\ event_permissions = EmptyBag
    /\ response = NoResponse
    /\ requests = <<>>

\* ----------------------------------------- versioning: one owner's events
CreateEvent == \E d \in CreateInputs : create_event(1, d)

UpdateEvent ==
    \E u \in Users, e \in EventIds, d \in UpdateInputs : update_event(u, e, d)

DeleteEvent == \E u \in Users, e \in EventIds : delete_event(u, e)

RollbackEvent ==
    \E u \in Users, e \in EventIds, k \in VersionNumbers : rollback_event(u, e, k)

Next ==
    \/ CreateEvent
    \/ UpdateEvent
    \/ DeleteEvent
    \/ RollbackEvent

Spec == Init /\ [][Next]_vars

\* ------------------------------------------- permissions on a single event
CreateFirstEvent == events = <<>> /\ create_event(1, FirstEventInput)

ShareEvent ==
    \E u \in Users, s \in GranteeShareInputs : share_event(u, 1, s)

UpdateUserPermission ==
    \E u \in Users, t \in Users, l \in PermissionLevel :
        update_user_permission(u, 1, t, l)

RevokeUserPermission ==
    \E u \in Users, t \in Users : revoke_user_permission(u, 1, t)

NextPerm ==
    \/ CreateFirstEvent
    \/ ShareEvent
    \/ UpdateUserPermission
    \/ RevokeUserPermission

SpecPerm == Init /\ [][NextPerm]_vars

\* --------------------------- one shared event: who may change its content
ShareWithCollaborator ==
    \E u \in Users, s \in CollaboratorShareInputs : share_event(u, 1, s)

CollabUpdateEvent ==
    \E u \in Users, d \in CollabUpdateInputs : update_event(u, 1, d)

CollabRollbackEvent ==
    \E u \in Users, k \in VersionNumbers : rollback_event(u, 1, k)

CollabDeleteEvent == \E u \in Users : delete_event(u, 1)

NextCollab ==
    \/ CreateFirstEvent
    \/ ShareWithCollaborator
    \/ CollabUpdateEvent
    \/ CollabRollbackEvent
    \/ CollabDeleteEvent

SpecCollab == Init /\ [][NextCollab]_vars

\* ------------------------ one shared event: every request, to its deletion
LifeUpdateUserPermission ==
    \E u \in Users, l \in PermissionLevel : update_user_permission(u, 1, 2, l)

LifeRevokeUserPermission == \E u \in Users : revoke_user_permission(u, 1, 2)

LifeEventHistory == \E u \in Users : get_event_history_request(u, 1)

LifeUpdateEvent == \E u \in Users : update_event(u, 1, "title" :> "Standup v2")

NextLife ==
    \/ CreateFirstEvent
    \/ ShareWithCollaborator
    \/ LifeUpdateEvent
    \/ CollabRollbackEvent
    \/ CollabDeleteEvent
    \/ LifeUpdateUserPermission
    \/ LifeRevokeUserPermission
    \/ LifeEventHistory

SpecLife == Init /\ [][NextLife]_vars

\* ---------------------- one event shared with several users per request
ShareSeveral ==
    \E u \in Users, s \in SeveralShareInputs : share_event(u, 1, s)

NextSeveral ==
    \/ CreateFirstEvent
    \/ ShareSeveral

SpecSeveral == Init /\ [][NextSeveral]_vars

\* ------------------------- overlapping update requests on the first event
\* Each request has its own session.  update_event runs three database
\* interactions: the handler's SELECT of the event, the INSERT + COMMIT of
\* _create_version, and, the session being expired by that commit, the
\* re-SELECT made by "event.version += 1" followed by the UPDATE + COMMIT.
ConcUsers == {1, 2}

ConcUpdateInputs == {<<>>, "title" :> "Standup v2", "recurrence_type" :> "daily"}

Session(user, event, update_data, pc) ==
    [user |-> user, event |-> event, update_data |-> update_data, pc |-> pc,
     loaded_version |-> event.version]

\* handler: load the event, authorise, validate; the session keeps the row
begin_update(user, event_id, update_data) ==
    LET event == events[event_id]
        new_start == IF "start_time" \in DOMAIN update_data
                     THEN update_data["start_time"] ELSE event.start_time
        new_end == IF "end_time" \in DOMAIN update_data
                   THEN update_data["end_time"] ELSE event.end_time
        Reply(status) == Respond("update", status, <<>>)
    IN  /\ Len(requests) < MaxRequests
        /\ UNCHANGED <<events, event_versions, event_permissions>>
        /\ IF ~ EventExists(event_id)
           THEN response' = Reply(404) /\ UNCHANGED requests
           ELSE IF ~ has_permission(user, event, EDITOR)
           THEN response' = Reply(403) /\ UNCHANGED requests
           ELSE IF DOMAIN update_data = {}
           THEN response' = Reply(200) /\ UNCHANGED requests
           ELSE IF /\ DOMAIN update_data \cap {"start_time", "end_time"} # {}
                   /\ _check_event_conflicts(event.owner_id, new_start, new_end,
                                             event_id) # {}
           THEN response' = Reply(409) /\ UNCHANGED requests
           ELSE /\ requests' = Append(requests,
                        Session(user, event, update_data, "loaded"))
                /\ UNCHANGED response

\* _create_version: INSERT the session's copy of the event, COMMIT
write_snapshot(i) ==
    LET r == requests[i]
    IN  /\ r.pc = "loaded"
        /\ Len(event_versions) < MaxSnapshots
        /\ event_versions' = Append(event_versions,
                _create_version(r.event, r.user,
                                _generate_change_summary(r.event, r.update_data)))
        /\ requests' = [requests EXCEPT ![i].pc = "snapshotted"]
        /\ UNCHANGED <<events, event_permissions, response>>

\* setattr loop, then event.version += 1 on the expired instance: the unset
\* columns are read again from the table
reload_event(i) ==
    LET r == requests[i]
        row == events[r.event.id]
    IN  /\ r.pc = "snapshotted"
        /\ requests' = [requests EXCEPT
                ![i].event = [ApplyUpdate(row, r.update_data)
                                 EXCEPT !.version = row.version + 1],
                ![i].pc = "reloaded"]
        /\ UNCHANGED <<events, event_versions, event_permissions, response>>

\* db.commit(): UPDATE of the columns the session changed
commit_update(i) ==
    LET r == requests[i]
        row == events[r.event.id]
    IN  /\ r.pc = "reloaded"
        /\ events' = [events EXCEPT ![r.event.id] =
                [ApplyUpdate(row, r.update_data)
                    EXCEPT !.version = r.event.version]]
        /\ requests' = [requests EXCEPT ![i].pc = "done"]
        /\ response' = Respond("update", 200, <<>>)
        /\ UNCHANGED <<event_versions, event_permissions>>

BeginUpdate ==
    \E u \in ConcUsers : \E d \in ConcUpdateInputs : begin_update(u, 1, d)

WriteSnapshot == \E i \in DOMAIN requests : write_snapshot(i)

ReloadEvent == \E i \in DOMAIN requests : reload_event(i)

CommitUpdate == \E i \in DOMAIN requests : commit_update(i)

NextConc ==
    \/ CreateFirstEvent
    \/ BeginUpdate
    \/ WriteSnapshot
    \/ ReloadEvent
    \/ CommitUpdate

SpecConc == Init /\ [][NextConc]_vars

\* ------------------------------- share requests of any shape on one event
ShareAny == \E u \in Users, s \in ShareInputs : share_event(u, 1, s)

NextShare ==
    \/ CreateFirstEvent
    \/ ShareAny

SpecShare == Init /\ [][NextShare]_vars

\* ------------------------------------------- the calendars of two users
CalUsers == {1, 2}

\* The calendars hold at most MaxEntries snapshot rows; a request that is
\* refused writes none and is always possible
CalendarBounded == Len(event_versions') <= MaxEntries

CalCreateEvent ==
    \E o \in CalUsers, d \in CalendarInputs :
        create_event(o, d) /\ CalendarBounded

CalUpdateEvent ==
    \E u \in CalUsers, e \in EventIds, d \in CalendarUpdateInputs :
        update_event(u, e, d) /\ CalendarBounded

CalDeleteEvent ==
    \E u \in CalUsers, e \in EventIds : delete_event(u, e) /\ CalendarBounded

CalCreateBatch ==
    \E o \in CalUsers, b \in BatchInputs :
        create_batch_events(o, b) /\ CalendarBounded

NextBatch ==
    \/ CalCreateEvent
    \/ CalCreateBatch
    \/ CalDeleteEvent

SpecBatch == Init /\ [][NextBatch]_vars

NextCal ==
    \/ CalCreateEvent
    \/ CalUpdateEvent
    \/ CalDeleteEvent

SpecCal == Init /\ [][NextCal]_vars

\* ----------------------------- the snapshot store under every operation
StoreCreate == create_event(1, FirstEventInput)

StoreBatch == create_batch_events(1, <<FirstEventInput>>)

StoreUpdate ==
    \E u \in CalUsers : update_event(u, 1, "title" :> "Standup v2")

StoreRollback ==
    \E u \in CalUsers, k \in VersionNumbers : rollback_event(u, 1, k)

StoreDelete == \E u \in CalUsers : delete_event(u, 1)

StoreShare ==
    \E u \in CalUsers, s \in CollaboratorShareInputs : share_event(u, 1, s)

StoreRevoke == \E u \in CalUsers : revoke_user_permission(u, 1, 2)

StoreHistory == \E u \in CalUsers : get_event_history_request(u, 1)

StoreCompare ==
    \E u \in CalUsers, k, l \in VersionNumbers : compare_versions(u, 1, k, l)

NextStore ==
    \/ StoreCreate
    \/ StoreBatch
    \/ StoreUpdate
    \/ StoreRollback
    \/ StoreDelete
    \/ StoreShare
    \/ StoreRevoke
    \/ StoreHistory
    \/ StoreCompare

SpecStore == Init /\ [][NextStore]_vars

\* ------------------------------------------------------- utils/diff.py
\* Field names, in sorted order, and values of the field maps compared
DiffFieldNames == <<"description", "location", "title">>

DiffValueNames == <<"Room 1", "Room 2", "Room 3">>

DiffKeys == {DiffFieldNames[i] : i \in 1..MaxKeys}

DiffValues == {DiffValueNames[i] : i \in 1..MaxValues} \cup {None}

\* dicts over the field names: a key can be absent, or present with None
FieldMaps == UNION {[keys -> DiffValues] : keys \in SUBSET DiffKeys}

\* dict.get(field)
Get(data, field) == IF field \in DOMAIN data THEN data[field] ELSE None

\* (mutant) a value that replaces None is reported as modified
_analyze_field_change_never_added(field_name, old_value, new_value) ==
    [field |-> field_name,
     has_changed |-> old_value # new_value,
     change_type |-> IF old_value = new_value THEN "unchanged"
                     ELSE IF old_value # None /\ new_value = None THEN "removed"
                     ELSE "modified",
     old_value |-> old_value,
     new_value |-> new_value]

\* (mutant) a value replaced by None is reported as modified
_analyze_field_change_never_removed(field_name, old_value, new_value) ==
    [field |-> field_name,
     has_changed |-> old_value # new_value,
     change_type |-> IF old_value = new_value THEN "unchanged"
                     ELSE IF old_value = None /\ new_value # None THEN "added"
                     ELSE "modified",
     old_value |-> old_value,
     new_value |-> new_value]

_analyze_field_change(field_name, old_value, new_value) ==
    [field |-> field_name,
     has_changed |-> old_value # new_value,
     change_type |-> IF old_value = new_value THEN "unchanged"
                     ELSE IF old_value = None /\ new_value # None THEN "added"
                     ELSE IF old_value # None /\ new_value = None THEN "removed"
                     ELSE "modified",
     old_value |-> old_value,
     new_value |-> new_value]

_generate_structured_diff(data1, data2) ==
    LET all_keys == DOMAIN data1 \cup DOMAIN data2
    IN  [additions |-> [key \in all_keys \ DOMAIN data1 |-> data2[key]],
         deletions |-> [key \in all_keys \ DOMAIN data2 |-> data1[key]],
         modifications |->
            [key \in {k \in DOMAIN data1 \cap DOMAIN data2 : data1[k] # data2[k]}
                |-> [before |-> data1[key], after |-> data2[key]]]]

\* The loop of generate_detailed_diff over the fields not yet visited
RECURSIVE DiffLoop(_, _, _, _)
DiffLoop(fields, version1_data, version2_data, diff_result) ==
    IF fields = {} THEN diff_result
    ELSE LET field == CHOOSE f \in fields : TRUE
             change_info == _analyze_field_change(field, Get(version1_data, field),
                                                  Get(version2_data, field))
             summary == diff_result.summary
             counted ==
                [summary EXCEPT
                    !.total_changes = @ + 1,
                    !.added_fields =
                        IF change_info.change_type = "added" THEN @ + 1 ELSE @,
                    !.removed_fields =
                        IF change_info.change_type = "removed" THEN @ + 1 ELSE @,
                    !.modified_fields =
                        IF change_info.change_type \notin {"added", "removed"}
                        THEN @ + 1 ELSE @]
         IN  DiffLoop(fields \ {field}, version1_data, version2_data,
                      IF change_info.has_changed
                      THEN [diff_result EXCEPT
                               !.summary = counted,
                               !.field_changes = (field :> change_info) @@ @]
                      ELSE diff_result)

generate_detailed_diff(version1_data, version2_data) ==
    [DiffLoop(DOMAIN version1_data \cup DOMAIN version2_data,
              version1_data, version2_data,
              [summary |-> [total_changes |-> 0, added_fields |-> 0,
                            removed_fields |-> 0, modified_fields |-> 0],
               field_changes |-> <<>>,
               structured_diff |-> <<>>])
        EXCEPT !.structured_diff =
                  _generate_structured_diff(version1_data, version2_data)]

\* The lines of generate_text_diff for the sorted keys from position i on
RECURSIVE TextLines(_, _, _, _)
TextLines(all_keys, version1_data, version2_data, i) ==
    IF i > Len(all_keys) THEN <<>>
    ELSE LET key == all_keys[i]
             val1 == Get(version1_data, key)
             val2 == Get(version2_data, key)
             lines == IF val1 = val2 THEN <<>>
                      ELSE IF key \notin DOMAIN version1_data
                      THEN << <<"+", key, val2>> >>
                      ELSE IF key \notin DOMAIN version2_data
                      THEN << <<"-", key, val1>> >>
                      ELSE << <<"-", key, val1>>, <<"+", key, val2>> >>
         IN  lines \o TextLines(all_keys, version1_data, version2_data, i + 1)

generate_text_diff(version1_data, version2_data) ==
    << <<"---", "Version 1">>, <<"+++", "Version 2">> >>
    \o TextLines(SelectSeq(DiffFieldNames,
                           LAMBDA key : key \in DOMAIN version1_data
                                                   \cup DOMAIN version2_data),
                 version1_data, version2_data, 1)

\* The two field maps of a comparison, and the diffs computed from them
InitDiff ==
    /\ events = <<>>
    /\ event_versions = <<>>
    /\ event_permissions = EmptyBag
    /\ response = NoResponse
    /\ requests \in {<<a, b>> : a \in FieldMaps, b \in FieldMaps}

DetailedDiff ==
    /\ response' = Respond("detailed_diff", 200,
                           generate_detailed_diff(requests[1], requests[2]))
    /\ UNCHANGED <<events, event_versions, event_permissions, requests>>

ReverseDiff ==
    /\ response' = Respond("reverse_diff", 200,
                           generate_detailed_diff(requests[2], requests[1]))
    /\ UNCHANGED <<events, event_versions, event_permissions, requests>>

TextDiff ==
    /\ response' = Respond("text_diff", 200,
                           generate_text_diff(requests[1], requests[2]))
    /\ UNCHANGED <<events, event_versions, event_permissions, requests>>

NextDiff ==
    \/ DetailedDiff
    \/ ReverseDiff
    \/ TextDiff

SpecDiff == InitDiff /\ [][NextDiff]_vars

\* ================================================================ claims
SnapshotNumbers(event_id) ==
    {event_versions[i].version_number : i \in SnapshotsOf(event_id)}

\* The versioned fields of an event or of a snapshot row
FieldsOf(r) == [f \in EventFields |-> r[f]]

\* C1: for every event, the version numbers of its stored snapshots are
\* exactly 1..currentVersion (no gap, and a snapshot numbered with the
\* current version exists).
C1_SnapshotNumbersAreOneToCurrent ==
    \A e \in 1..Len(events) : SnapshotNumbers(e) = 1..events[e].version

\* C2: for every event and version number there is at most one stored
\* snapshot with that (event, version number).
C2_OneSnapshotPerVersion ==
    \A i, j \in 1..Len(event_versions) :
        (/\ event_versions[i].event_id = event_versions[j].event_id
         /\ event_versions[i].version_number = event_versions[j].version_number)
        => i = j

\* C3: every successful update with a non-empty change set appends exactly
\* one snapshot, numbered with the event's version before the update and
\* holding the event's fields before the update, then sets the changed fields,
\* leaves the other fields alone and raises the version by exactly 1; an event
\* is created at version 1 and no event's version ever decreases.
C3_UpdateStep ==
    (response'.op = "update" /\ response'.status = 200) =>
    \A u \in Users, e \in EventIds, d \in UpdateInputs :
        (DOMAIN d # {} /\ update_event(u, e, d))
        => /\ Len(event_versions') = Len(event_versions) + 1
           /\ SubSeq(event_versions', 1, Len(event_versions)) = event_versions
           /\ LET snapshot == event_versions'[Len(event_versions')]
              IN  /\ snapshot.event_id = e
                  /\ snapshot.version_number = events[e].version
                  /\ FieldsOf(snapshot) = FieldsOf(events[e])
           /\ \A f \in EventFields :
                 events'[e][f] = IF f \in DOMAIN d THEN d[f] ELSE events[e][f]
           /\ events'[e].version = events[e].version + 1

C3_VersionCounter ==
    /\ \A e \in 1..Len(events) : events'[e].version >= events[e].version
    /\ \A e \in (Len(events) + 1)..Len(events') : events'[e].version = 1

C3_UpdateSnapshotsThenBumps == [][C3_UpdateStep /\ C3_VersionCounter]_vars

C3_Witness ==
    /\ response = Respond("update", 200, <<>>)
    /\ \E e \in 1..Len(events) :
          /\ events[e].version = 3
          /\ events[e].title = "Standup v2"
          /\ \E i \in SnapshotsOf(e) :
                /\ event_versions[i].version_number = 2
                /\ event_versions[i].title = "Standup"
                /\ event_versions[i].change_summary.kind = "Updated"

\* C4: a rollback of an event at version N to an existing version k by a
\* user with EDITOR-or-higher access succeeds, sets every versioned field of
\* the event to the values stored in snapshot k, raises the version to N+1
\* and appends one snapshot numbered N that holds the pre-rollback state.
C4_RollbackStep ==
    (response'.op = "rollback") =>
    \A u \in Users, k \in VersionNumbers :
        (/\ rollback_event(u, 1, k)
         /\ EventExists(1)
         /\ has_permission(u, events[1], EDITOR)
         /\ VersionRows(1, k) # {})
        => /\ response'.status = 200
           /\ \A i \in VersionRows(1, k) :
                 FieldsOf(events'[1]) = FieldsOf(event_versions[i])
           /\ events'[1].version = events[1].version + 1
           /\ Len(event_versions') = Len(event_versions) + 1
           /\ SubSeq(event_versions', 1, Len(event_versions)) = event_versions
           /\ LET snapshot == event_versions'[Len(event_versions')]
              IN  /\ snapshot.event_id = 1
                  /\ snapshot.version_number = events[1].version
                  /\ FieldsOf(snapshot) = FieldsOf(events[1])

PastSnapshot(i) == requests[i].pc \in {"snapshotted", "reloaded", "done"}

C5_NoTwoRequestsSnapshotSameVersion ==
    \A i, j \in DOMAIN requests :
        (i # j /\ PastSnapshot(i) /\ PastSnapshot(j)
             /\ requests[i].event.id = requests[j].event.id)
        => requests[i].loaded_version # requests[j].loaded_version

\* ------------------------------------------------ claims on permissions
\* The level of the rows user holds on the first event ({} when none)
LevelsHeld(user) == {row.permission_level : row \in PermissionRows(1, user)}

IsOwner(user) == events[1].owner_id = user

\* The share body that names target t at level l
ShareOf(t, l) == <<[user_id |-> t, permission_level |-> l]>>

\* The outcome leaves the table as it is and grants nothing
Denied(answer) ==
    \A outcome \in {answer} :
        /\ outcome.status \notin {200, 201} \/ outcome.result = <<"failed">>
        /\ outcome.permissions = event_permissions

\* The row a successful grant of level l to t by u leaves in the table
Granted(u, t, l) ==
    [event_id |-> 1, user_id |-> t, permission_level |-> l, granted_by |-> u]

\* The outcome is a grant of level l to t by u
Succeeded(answer, u, t, l) ==
    \A outcome \in {answer} :
        /\ outcome.status = 200
           \/ (outcome.status = 201 /\ outcome.result = <<"granted">>)
        /\ BagIn(Granted(u, t, l), outcome.permissions)

\* C6: a grant attempt, by share or by permission update, of a user who is
\* not the event's owner and holds no row or only VIEWER is denied for
\* every target and level, and leaves the permission rows unchanged.
C6_LowGranterIsDenied ==
    EventExists(1) =>
        \A u \in Users :
            (~ IsOwner(u) /\ LevelsHeld(u) \subseteq {VIEWER}) =>
                /\ \A t \in Users, l \in PermissionLevel :
                      Denied(update_user_permission_outcome(u, 1, t, l))
                /\ \A t \in Users, l \in PermissionLevel :
                      Denied(share_event_outcome(u, 1, ShareOf(t, l)))

\* User u's grant of OWNER to some target succeeds from the current state
GrantsOwner(u) ==
    \/ \E t \in Users :
          update_user_permission_outcome(u, 1, t, OWNER).status = 200
    \/ \E t \in Users :
          share_event_outcome(u, 1, ShareOf(t, OWNER)).result = <<"granted">>

\* C7 (as stated): a grant of OWNER succeeds only when the granter is the
\* event's true owner; the holder of an OWNER-level row cannot grant OWNER.
C7_OnlyTrueOwnerGrantsOwner ==
    EventExists(1) => \A u \in Users : GrantsOwner(u) => IsOwner(u)

\* C7 (amended): a grant of OWNER succeeds only when the granter is the
\* event's true owner or holds an OWNER-level row on the event; a granter
\* with a lower level or no row cannot grant OWNER.
C7_OnlyOwnersGrantOwner ==
    EventExists(1) =>
        \A u \in Users : GrantsOwner(u) => (IsOwner(u) \/ OWNER \in LevelsHeld(u))

\* an OWNER row granted by a user who is not the event's owner
C7_Witness ==
    /\ EventExists(1)
    /\ response.status \in {200, 201}
    /\ \E row \in BagToSet(event_permissions) :
          /\ row.permission_level = OWNER
          /\ ~ IsOwner(row.granted_by)
          /\ row.user_id # row.granted_by

\* A non-owner whose row on the first event is EDITOR
EditorGranter(u) == ~ IsOwner(u) /\ LevelsHeld(u) = {EDITOR}

\* An editor's attempts through the permission-update operation: VIEWER to
\* another user succeeds, EDITOR and OWNER are denied without any change
EditorUpdates(u) ==
    \A t \in Users \ {u, events[1].owner_id} :
        /\ Succeeded(update_user_permission_outcome(u, 1, t, VIEWER), u, t, VIEWER)
        /\ \A l \in {EDITOR, OWNER} :
              Denied(update_user_permission_outcome(u, 1, t, l))

\* An editor's attempts through the share operation, were share to apply the
\* same rule to each target
EditorSharesByRule(u) ==
    \A t \in Users \ {u, events[1].owner_id} :
        /\ Succeeded(share_event_outcome(u, 1, ShareOf(t, VIEWER)), u, t, VIEWER)
        /\ \A l \in {EDITOR, OWNER} :
              Denied(share_event_outcome(u, 1, ShareOf(t, l)))

\* An editor's attempts through the share operation: the request is refused
EditorSharesRefused(u) ==
    \A t \in Users, l \in PermissionLevel :
        /\ share_event_outcome(u, 1, ShareOf(t, l)).status = 403
        /\ Denied(share_event_outcome(u, 1, ShareOf(t, l)))

Rank(level) == CASE level = VIEWER -> 1 [] level = EDITOR -> 2 [] level = OWNER -> 3

C9_AuthorizeIsRankAtLeast ==
    EventExists(1) =>
        \A u \in Users :
            /\ \A required \in PermissionLevel :
                  has_permission(u, events[1], required)
                  <=> (\/ IsOwner(u)
                       \/ \E held \in LevelsHeld(u) : Rank(held) >= Rank(required))
            /\ has_permission(u, events[1], EDITOR)
                  => has_permission(u, events[1], VIEWER)

\* a non-owner holding EDITOR: authorised at EDITOR and VIEWER, not at OWNER
C9_Witness ==
    /\ EventExists(1)
    /\ \E u \in Users :
          /\ EditorGranter(u)
          /\ has_permission(u, events[1], EDITOR)
          /\ has_permission(u, events[1], VIEWER)
          /\ ~ has_permission(u, events[1], OWNER)

OneRowPerGrantee(permissions) ==
    \A row \in BagToSet(permissions) :
        /\ CopiesIn(row, permissions) = 1
        /\ PermissionRowsIn(permissions, row.event_id, row.user_id) = {row}

\* grant_permission of level l to t by u, t having a row, leaves t exactly
\* the row of the new level and granter, and as many rows as before
Overwrites(u, t, l) ==
    \A after \in {grant_permission(event_permissions, events[1], t, l, u)} :
        ~ GrantForbidden(event_permissions, events[1], l, u) =>
            /\ PermissionRowsIn(after, 1, t) = {Granted(u, t, l)}
            /\ CopiesIn(Granted(u, t, l), after) = 1
            /\ BagCardinality(after) = BagCardinality(event_permissions)

\* C10: after any sequence of share, permission-update and revoke there is
\* at most one permission row per (event, grantee); a grant to a user who
\* has a row overwrites that row's level and granter and adds no row.
C10_OneRowPerGrantee ==
    /\ OneRowPerGrantee(event_permissions)
    /\ EventExists(1) =>
          \A t \in Users :
              PermissionRows(1, t) # {} =>
                  \A u \in Users, l \in PermissionLevel : Overwrites(u, t, l)

\* A non-owner's OWNER row granted by that user: only a holder of an OWNER
\* row can have granted it, so the grant found a row and overwrote it
C10_Witness ==
    /\ EventExists(1)
    /\ response.status \in {200, 201}
    /\ \E row \in BagToSet(event_permissions) :
          /\ ~ IsOwner(row.user_id)
          /\ row.permission_level = OWNER
          /\ row.granted_by = row.user_id
          /\ CopiesIn(row, event_permissions) = 1
          /\ PermissionRows(1, row.user_id) = {row}

\* C11: in every reachable state no permission row of an event has the
\* event's owner as its grantee, whoever issued the share or the permission
\* update, the owner naming themselves included.
C11_OwnerIsNeverGrantee ==
    \A row \in BagToSet(event_permissions) :
        events[row.event_id].owner_id # row.user_id

\* Some stored event other than self, not deleted and owned by owner, has
\* start < end_time and end > start_time
Overlapped(owner, start_time, end_time, self) ==
    \E i \in 1..Len(events) :
        /\ i # self
        /\ events[i].owner_id = owner
        /\ ~ events[i].is_deleted
        /\ events[i].start_time < end_time
        /\ events[i].end_time > start_time

\* The range an update asks for: the fields it sets, the others as stored
RangeAfter(event, d) ==
    [start_time |-> IF "start_time" \in DOMAIN d THEN d["start_time"]
                    ELSE event.start_time,
     end_time |-> IF "end_time" \in DOMAIN d THEN d["end_time"]
                  ELSE event.end_time]

\* C12: a create or an update for owner O with time range [s, e) is rejected
\* with Conflict exactly when some other non-deleted event owned by O has
\* start < e and end > s: touching ranges do not conflict, soft-deleted
\* events and events of other owners are not considered, and the event an
\* update changes is left out of the scan.
C12_ConflictExactlyOnOverlap ==
    /\ \A o \in CalUsers, d \in CalendarInputs :
          ENABLED (create_event(o, d) /\ response'.status \in {201, 409}) =>
              (ENABLED (create_event(o, d) /\ response'.status = 409)
               <=> Overlapped(o, d.start_time, d.end_time, 0))
    /\ \A u \in CalUsers, e \in 1..Len(events), d \in CalendarUpdateInputs :
          ENABLED (update_event(u, e, d) /\ response'.status \in {200, 409}) =>
              (ENABLED (update_event(u, e, d) /\ response'.status = 409)
               <=> Overlapped(events[e].owner_id,
                              RangeAfter(events[e], d).start_time,
                              RangeAfter(events[e], d).end_time, e))

\* a create refused with Conflict while the owner's calendar holds two live
\* events that touch at an endpoint
C12_Witness ==
    /\ response = Respond("create", 409, <<>>)
    /\ \E i, j \in 1..Len(events) :
          /\ events[i].owner_id = events[j].owner_id
          /\ ~ events[i].is_deleted /\ ~ events[j].is_deleted
          /\ events[i].end_time = events[j].start_time

\* C13: if any item of a batch create, at whatever position, overlaps a live
\* stored event of the owner, the batch request is answered with an error
\* and the events and snapshots stored after it are those stored before it.
C13_BatchIsAllOrNothing ==
    \A o \in CalUsers, b \in BatchInputs :
        (\E i \in 1..Len(b) :
            Overlapped(o, b[i].start_time, b[i].end_time, 0)) =>
            /\ ENABLED (create_batch_events(o, b) /\ response'.status = 400)
            /\ ~ ENABLED (/\ create_batch_events(o, b)
                          /\ \/ response'.status # 400
                             \/ events' # events
                             \/ event_versions' # event_versions)

\* a batch has just been refused while its owner has a live event and the
\* tables hold one snapshot per stored event, none from the batch
C13_Witness ==
    /\ response = Respond("batch", 400, <<>>)
    /\ \E i \in 1..Len(events) : ~ events[i].is_deleted
    /\ Len(event_versions) = Len(events)

\* C14: in every reachable state every stored event has
\* end_time > start_time.
C14_EndAfterStart ==
    \A i \in 1..Len(events) : events[i].end_time > events[i].start_time

\* The user is the owner of event 1 or holds EDITOR or OWNER on it
MayEdit(user) == IsOwner(user) \/ LevelsHeld(user) \cap {EDITOR, OWNER} # {}

\* The request can only be answered 403, with events and snapshots as before
OnlyDenied(request) ==
    /\ ENABLED (request /\ response'.status = 403)
    /\ ~ ENABLED (/\ request
                  /\ \/ response'.status # 403
                     \/ events' # events
                     \/ event_versions' # event_versions)

\* C15: an update or rollback of a live event by a user who is not its owner
\* and holds no row or a VIEWER row is denied (403) and leaves the event's
\* fields, version and snapshots unchanged; the same request by the owner
\* or by a holder of EDITOR (or OWNER) is never denied: an update is answered
\* 200 or, on a time conflict, 409; a rollback 200 or, when the version asked
\* for has no snapshot, 404.
C15_EditRequiresEditor ==
    EventExists(1) =>
        \A u \in Users :
            /\ \A d \in CollabUpdateInputs :
                  IF MayEdit(u)
                  THEN /\ ~ ENABLED (update_event(u, 1, d)
                                     /\ response'.status \notin {200, 409})
                       /\ Len(event_versions) < MaxSnapshots
                             => ENABLED update_event(u, 1, d)
                  ELSE OnlyDenied(update_event(u, 1, d))
            /\ \A k \in VersionNumbers :
                  IF MayEdit(u)
                  THEN /\ ~ ENABLED (rollback_event(u, 1, k)
                                     /\ response'.status \notin {200, 404})
                       /\ Len(event_versions) < MaxSnapshots
                             => ENABLED rollback_event(u, 1, k)
                  ELSE OnlyDenied(rollback_event(u, 1, k))

\* an update of the live event was just refused while user 2 holds VIEWER on
\* it and the event is still at version 1 with its one snapshot
C15_Witness ==
    /\ response = Respond("update", 403, <<>>)
    /\ EventExists(1)
    /\ LevelsHeld(2) = {VIEWER}
    /\ events[1].version = 1
    /\ Len(event_versions) = 1

\* The step answers 204, sets the soft-delete flag of event 1 and nothing
\* else of it, and appends one snapshot of the event as it was, numbered
\* with its current version
SoftDeleted ==
    /\ response'.status = 204
    /\ events' = [events EXCEPT ![1].is_deleted = TRUE]
    /\ Len(event_versions') = Len(event_versions) + 1
    /\ SubSeq(event_versions', 1, Len(event_versions)) = event_versions
    /\ \E snapshot \in {event_versions'[Len(event_versions')]} :
          /\ snapshot.event_id = 1
          /\ snapshot.version_number = events[1].version
          /\ FieldsOf(snapshot) = FieldsOf(events[1])

C17_DeletedStep ==
    (Len(events) >= 1 /\ events[1].is_deleted) =>
        /\ response'.status = 404
        /\ events'[1].is_deleted
        /\ events' = events
        /\ event_versions' = event_versions
        /\ event_permissions' = event_permissions

C17_SoftDeleteIsTerminal == [][C17_DeletedStep]_vars

\* a history request on the soft-deleted event was just answered 404; the
\* event has been updated before its deletion and user 2 still holds a row
C17_Witness ==
    /\ response = Respond("history", 404, <<>>)
    /\ Len(events) = 1
    /\ events[1].is_deleted
    /\ events[1].version = 2
    /\ LevelsHeld(2) # {}

\* authorize(x, event 1, l) for no level l
NoAccess(x) == \A l \in PermissionLevel : ~ has_permission(x, events[1], l)

\* After the step, authorize(x, event 1, l') holds exactly for l' up to l
AccessUpTo(x, l) ==
    \A required \in PermissionLevel :
        has_permission(x, events[1], required)' <=> Rank(required) <= Rank(l)

\* C18: for a live event and a user X other than its owner: a grant of level
\* L to X by the owner (by share or by permission update) succeeds and
\* leaves authorize(X, E, L') true exactly for the levels L' not above L; a
\* revoke of X by the owner leaves authorize(X, E, L') false for every level;
\* and while X has no access, no request that does not name X as its target
\* (a share or permission update for another user, a revoke, by any user)
\* gives X access.
C18_GrantThenRevoke ==
    EventExists(1) =>
        \A x \in Users \ {events[1].owner_id} :
            /\ \A l \in PermissionLevel :
                  /\ ENABLED share_event(events[1].owner_id, 1, ShareOf(x, l))
                  /\ ~ ENABLED (/\ share_event(events[1].owner_id, 1, ShareOf(x, l))
                                /\ ~ (response'.status = 201 /\ AccessUpTo(x, l)))
                  /\ ENABLED update_user_permission(events[1].owner_id, 1, x, l)
                  /\ ~ ENABLED (/\ update_user_permission(events[1].owner_id, 1, x, l)
                                /\ ~ (response'.status = 200 /\ AccessUpTo(x, l)))
            /\ ENABLED revoke_user_permission(events[1].owner_id, 1, x)
            /\ ~ ENABLED (/\ revoke_user_permission(events[1].owner_id, 1, x)
                          /\ ~ NoAccess(x)')
            /\ NoAccess(x) =>
                  \A u \in Users, t \in Users \ {x} :
                      /\ ~ ENABLED (revoke_user_permission(u, 1, t) /\ ~ NoAccess(x)')
                      /\ \A l \in PermissionLevel :
                            /\ ~ ENABLED (/\ update_user_permission(u, 1, t, l)
                                          /\ ~ NoAccess(x)')
                            /\ ~ ENABLED (/\ share_event(u, 1, ShareOf(t, l))
                                          /\ ~ NoAccess(x)')

\* the owner has just revoked a user: users 2 and 3 were both granted
\* access, user 3 still holds a row and user 2 has no access at any level
C18_Witness ==
    /\ response = Respond("revoke", 200, <<>>)
    /\ EventExists(1)
    /\ NoAccess(2)
    /\ LevelsHeld(3) # {}

\* The step removes the row of target t on event 1 when there is one
\* (answer 200), reports not-found when there is none (answer 404, table as
\* it was), and leaves every other row with its count
TargetRowRemoved(t) ==
    /\ response'.status = (IF PermissionRows(1, t) = {} THEN 404 ELSE 200)
    /\ PermissionRowsIn(event_permissions', 1, t) = {}
    /\ BagToSet(event_permissions') = BagToSet(event_permissions) \ PermissionRows(1, t)
    /\ \A row \in BagToSet(event_permissions') :
          CopiesIn(row, event_permissions') = CopiesIn(row, event_permissions)

\* C19: a revoke request on a live event changes permission rows only when
\* the acting user is the event's true owner and the target is not the
\* owner: it then removes exactly the target's row on the event, reporting
\* not-found when there is none, and leaves every other row unchanged; a
\* revoke by anyone else (400 or 403), or one that names the owner as its
\* target (400), is rejected with all rows unchanged.
C19_RevokeFrame ==
    EventExists(1) =>
        \A u \in Users, t \in UserIds :
            /\ ENABLED revoke_user_permission(u, 1, t)
            /\ IF IsOwner(u) /\ ~ IsOwner(t)
               THEN ~ ENABLED (revoke_user_permission(u, 1, t)
                               /\ ~ TargetRowRemoved(t))
               ELSE ~ ENABLED (/\ revoke_user_permission(u, 1, t)
                               /\ \/ response'.status \notin {400, 403}
                                  \/ event_permissions' # event_permissions)

\* the owner's revoke of user 3 has just succeeded and the EDITOR row of
\* user 2 is still in the table
C19_Witness ==
    /\ response = Respond("revoke", 200, <<>>)
    /\ EventExists(1)
    /\ LevelsHeld(3) = {}
    /\ LevelsHeld(2) = {EDITOR}

\* The row a grant of body entry p by user u leaves
RowGranted(u, p) ==
    [event_id |-> 1, user_id |-> p.user_id,
     permission_level |-> p.permission_level, granted_by |-> u]

\* The step answers 201 with one status per target; a target reported
\* granted has exactly its new row, a target reported failed has the rows it
\* had, and so has every user the body does not name
GrantsApplied(u, s) ==
    /\ response'.status = 201
    /\ Len(response'.result) = Len(s)
    /\ \A i \in 1..Len(s) :
          \/ /\ response'.result[i] = "granted"
             /\ PermissionRowsIn(event_permissions', 1, s[i].user_id)
                   = {RowGranted(u, s[i])}
          \/ /\ response'.result[i] = "failed"
             /\ PermissionRowsIn(event_permissions', 1, s[i].user_id)
                   = PermissionRows(1, s[i].user_id)
    /\ \A t \in UserIds \ {s[i].user_id : i \in 1..Len(s)} :
          PermissionRowsIn(event_permissions', 1, t) = PermissionRows(1, t)

\* The step answers the status and leaves every permission row as it was
Aborted(status) ==
    response'.status = status /\ event_permissions' = event_permissions

\* C20 (as stated): a share request with several targets by a user with
\* OWNER access is never aborted: a target that does not exist, or whose
\* level the granter may not grant, is reported failed and the grants of
\* the other targets are applied.
C20_FailedTargetsDoNotAbort ==
    EventExists(1) =>
        \A u \in Users, s \in SeveralShareInputs :
            has_permission(u, events[1], OWNER) =>
                ~ ENABLED (share_event(u, 1, s) /\ ~ GrantsApplied(u, s))

\* C20 (amended): a share request with several targets by a user with OWNER
\* access, all of whose targets exist, is answered 201 with one status per
\* target: a target whose grant is denied is reported failed and keeps the
\* rows it had, while the grant of every other target is applied; a request
\* that names a user who does not exist is aborted as a whole (400), and so
\* is the request of a user without OWNER access (403), with no grant
\* applied.
C20_DeniedTargetsDoNotAbortUnknownDo ==
    EventExists(1) =>
        \A u \in Users, s \in SeveralShareInputs :
            /\ ENABLED share_event(u, 1, s)
            /\ ~ ENABLED (/\ share_event(u, 1, s)
                          /\ ~ IF ~ has_permission(u, events[1], OWNER)
                               THEN Aborted(403)
                               ELSE IF \E i \in 1..Len(s) : s[i].user_id \notin Users
                               THEN Aborted(400)
                               ELSE GrantsApplied(u, s))

\* a share request has just been answered 201 with its first target granted
\* and its second failed: user 2, who held an OWNER row, gave themselves
\* VIEWER and was then denied the grant of OWNER to user 3, who keeps the
\* VIEWER row the owner granted
C20_Witness ==
    /\ response = Respond("share", 201, <<"granted", "failed">>)
    /\ PermissionRows(1, 2)
          = {RowGranted(2, [user_id |-> 2, permission_level |-> VIEWER])}
    /\ PermissionRows(1, 3)
          = {RowGranted(1, [user_id |-> 3, permission_level |-> VIEWER])}

\* C21: a create or update that is rejected with Conflict (409) persists
\* nothing: no event is inserted, no snapshot is written, and the fields and
\* version of every stored event are those before the call.
C21_ConflictStep ==
    response'.status = 409 =>
        /\ response'.op \in {"create", "update"}
        /\ events' = events
        /\ event_versions' = event_versions
        /\ event_permissions' = event_permissions

C21_ConflictPersistsNothing == [][C21_ConflictStep]_vars

\* an update was just rejected with Conflict: the owner's two events are
\* both at version 1 and each has its initial snapshot only
C21_Witness ==
    /\ response = Respond("update", 409, <<>>)
    /\ Len(events) = 2
    /\ events[1].owner_id = events[2].owner_id
    /\ \A e \in 1..2 : events[e].version = 1 /\ ~ events[e].is_deleted
    /\ Len(event_versions) = 2

\* C22: an update of a live event by its owner or a holder of EDITOR or
\* OWNER whose body sets no field is a no-op: it is answered 200, writes no
\* snapshot and leaves the version and every field of the event unchanged.
C22_EmptyUpdateIsNoOp ==
    EventExists(1) =>
        \A u \in Users :
            MayEdit(u) =>
                /\ ENABLED update_event(u, 1, <<>>)
                /\ ~ ENABLED (/\ update_event(u, 1, <<>>)
                              /\ \/ response'.status # 200
                                 \/ events' # events
                                 \/ event_versions' # event_versions
                                 \/ event_permissions' # event_permissions)

\* an update has just been answered 200 while the event is still at version
\* 1 with its initial snapshot only, and user 2 holds EDITOR
C22_Witness ==
    /\ response = Respond("update", 200, <<>>)
    /\ EventExists(1)
    /\ events[1].version = 1
    /\ Len(event_versions) = 1
    /\ LevelsHeld(2) = {EDITOR}

\* The step is a history request answered 200
HistoryAnswered == response'.op = "history" /\ response'.status = 200

\* C23: a history request that is answered returns all snapshots of the
\* event, in descending order of version number, and changes no state; and
\* a history request that directly follows another one, with no mutation
\* between them, returns the identical ordered result.
C23_HistoryStep ==
    HistoryAnswered =>
        /\ {response'.result[i] : i \in DOMAIN response'.result} = SnapshotsOf(1)
        /\ Len(response'.result) = Cardinality(SnapshotsOf(1))
        /\ \A i, j \in DOMAIN response'.result :
              i < j => event_versions[response'.result[i]].version_number
                          >= event_versions[response'.result[j]].version_number
        /\ UNCHANGED <<events, event_versions, event_permissions>>
        /\ (response.op = "history" /\ response.status = 200)
              => response'.result = response.result

C23_HistoryIsOrderedAndRepeatable == [][C23_HistoryStep]_vars

\* C24: snapshots are append-only: every step of every operation (create,
\* batch create, update, rollback, delete, share, revoke, history, compare)
\* leaves every snapshot already stored in its place, with its version
\* number, fields, acting user and summary unchanged.
C24_SnapshotsStep ==
    /\ Len(event_versions') >= Len(event_versions)
    /\ SubSeq(event_versions', 1, Len(event_versions)) = event_versions

C24_SnapshotsAreAppendOnly == [][C24_SnapshotsStep]_vars

\* the event was updated and then rolled back to version 1: three snapshots
\* are stored, the first still the initial one
C24_Witness ==
    /\ response = Respond("rollback", 200, <<>>)
    /\ Len(event_versions) = 3
    /\ event_versions[1].change_summary.kind = "Initial creation"
    /\ event_versions[2].change_summary.kind = "Updated"
    /\ event_versions[3].change_summary.kind = "Rollback to version"

\* How the text rendering reports a field: by the signs of its lines
TextType(lines, field) ==
    LET signs == {lines[i][1] : i \in {j \in DOMAIN lines : lines[j][2] = field}}
    IN  IF signs = {"+"} THEN "added"
        ELSE IF signs = {"-"} THEN "removed"
        ELSE IF signs = {"-", "+"} THEN "modified"
        ELSE "unchanged"

\* How field_changes reports a field
FieldChangeType(diff, field) ==
    IF field \in DOMAIN diff.field_changes
    THEN diff.field_changes[field].change_type ELSE "unchanged"

\* How structured_diff reports a field
StructuredType(diff, field) ==
    IF field \in DOMAIN diff.structured_diff.additions THEN "added"
    ELSE IF field \in DOMAIN diff.structured_diff.deletions THEN "removed"
    ELSE IF field \in DOMAIN diff.structured_diff.modifications THEN "modified"
    ELSE "unchanged"

\* C25: for every pair of field maps, keys present with a null value
\* included, the text rendering reports a field as added, removed or
\* modified exactly when generate_detailed_diff reports it with the same
\* change type in field_changes and in structured_diff.
C25_TextAndStructuredAgree ==
    response.op = "text_diff" =>
        \A diff \in {generate_detailed_diff(requests[1], requests[2])} :
            \A field \in DiffKeys :
                /\ TextType(response.result, field) = FieldChangeType(diff, field)
                /\ TextType(response.result, field) = StructuredType(diff, field)

\* The map has a value for the field: the key is present and not null
HasValue(data, field) == field \in DOMAIN data /\ data[field] # None

\* The fields reported with the change type
Reported(diff, type) ==
    {f \in DOMAIN diff.field_changes : diff.field_changes[f].change_type = type}

\* field_changes holds exactly the fields of the union of keys whose values
\* differ, and the summary counts them by type
ReportsDifferences(diff, a, b) ==
    /\ DOMAIN diff.field_changes
          = {f \in DOMAIN a \cup DOMAIN b : Get(a, f) # Get(b, f)}
    /\ diff.summary.total_changes = Cardinality(DOMAIN diff.field_changes)
    /\ diff.summary.added_fields = Cardinality(Reported(diff, "added"))
    /\ diff.summary.removed_fields = Cardinality(Reported(diff, "removed"))
    /\ diff.summary.modified_fields = Cardinality(Reported(diff, "modified"))
    /\ diff.summary.total_changes
          = diff.summary.added_fields + diff.summary.removed_fields
            + diff.summary.modified_fields

C27_DiffIsSymmetric ==
    response.op = "reverse_diff" =>
        \A forward \in {generate_detailed_diff(requests[1], requests[2])},
           backward \in {response.result} :
            /\ DOMAIN forward.field_changes = DOMAIN backward.field_changes
            /\ Reported(forward, "added") = Reported(backward, "removed")
            /\ Reported(forward, "removed") = Reported(backward, "added")
            /\ Reported(forward, "modified") = Reported(backward, "modified")
            /\ \A f \in DOMAIN forward.field_changes :
                  /\ forward.field_changes[f].old_value
                        = backward.field_changes[f].new_value
                  /\ forward.field_changes[f].new_value
                        = backward.field_changes[f].old_value
            /\ forward.structured_diff.additions = backward.structured_diff.deletions
            /\ forward.structured_diff.deletions = backward.structured_diff.additions
            /\ \A f \in DOMAIN forward.structured_diff.modifications :
                  /\ f \in DOMAIN backward.structured_diff.modifications
                  /\ forward.structured_diff.modifications[f].before
                        = backward.structured_diff.modifications[f].after
                  /\ forward.structured_diff.modifications[f].after
                        = backward.structured_diff.modifications[f].before
            /\ DOMAIN forward.structured_diff.modifications
                  = DOMAIN backward.structured_diff.modifications

\* the reverse diff of two maps with one field added, one removed: the
\* reverse reports the first as removed and the second as added
C27_Witness ==
    /\ response.op = "reverse_diff"
    /\ requests[1] = ("description" :> "Room 1")
    /\ requests[2] = ("location" :> "Room 2")
    /\ Reported(response.result, "added") = {"description"}
    /\ Reported(response.result, "removed") = {"location"}

\* C28: in every state reached by create, batch create, update, rollback
\* and delete, no two distinct non-deleted events of the same owner have
\* overlapping time ranges (a.start < b.end and b.start < a.end); two items
\* of one successful batch never overlap each other.
C28_LiveEventsNeverOverlap ==
    \A a, b \in 1..Len(events) :
        (/\ a # b
         /\ events[a].owner_id = events[b].owner_id
         /\ ~ events[a].is_deleted
         /\ ~ events[b].is_deleted)
        => ~ (/\ events[a].start_time < events[b].end_time
              /\ events[b].start_time < events[a].end_time)

\* After the step, user holds no level on event 1 that they did not hold
\* before it
NotRaised(user) ==
    \A required \in PermissionLevel :
        has_permission(user, events[1], required)'
            => has_permission(user, events[1], required)

\* C29: no share or permission-update request issued by a user u who is not
\* the owner of the live event raises u's own effective level: every level
\* at which authorize(u, event, level) holds after the request held before
\* it (a user with no access stays without access, a VIEWER stays VIEWER).
C29_NoSelfEscalation ==
    (Len(events) = 1 /\ EventExists(1)) =>
        \A u \in Users :
            ~ IsOwner(u) =>
                /\ \A s \in GranteeShareInputs :
                      ~ ENABLED (share_event(u, 1, s) /\ ~ NotRaised(u))
                /\ \A t \in Users, l \in PermissionLevel :
                      ~ ENABLED (update_user_permission(u, 1, t, l) /\ ~ NotRaised(u))

\* The rank of the highest level the user's rows carry, 0 with no row
HeldRank(user) ==
    IF LevelsHeld(user) = {} THEN 0
    ELSE CHOOSE r \in {Rank(l) : l \in LevelsHeld(user)} :
            \A l \in LevelsHeld(user) : Rank(l) <= r

\* C30: a grant issued by a granter who is not the owner and holds a VIEWER
\* or EDITOR row never changes the level of a grantee whose row carries a
\* level equal to or higher than the granter's (an EDITOR granting VIEWER to
\* a holder of EDITOR or OWNER does not lower that user's level).
C30_GrantKeepsHigherGrantee ==
    (Len(events) = 1 /\ EventExists(1)) =>
        \A u \in Users, t \in Users :
            (/\ ~ IsOwner(u)
             /\ LevelsHeld(u) # {}
             /\ HeldRank(u) < Rank(OWNER)
             /\ LevelsHeld(t) # {}
             /\ u # t
             /\ HeldRank(t) >= HeldRank(u))
            => /\ \A l \in PermissionLevel :
                     ~ ENABLED (/\ update_user_permission(u, 1, t, l)
                                /\ LevelsHeld(t)' # LevelsHeld(t))
               /\ \A s \in GranteeShareInputs :
                     ~ ENABLED (/\ share_event(u, 1, s)
                                /\ LevelsHeld(t)' # LevelsHeld(t))

====
